---- MODULE Spec2Model ----
(***************************************************************************)
(* The io_uring file server of server.cpp: the buffer pool, the await_*     *)
(* primitives, the request handler (serve / http_send_file) run as a        *)
(* coroutine, the kernel's submission/completion side, and the event loop   *)
(* of main.                                                                 *)
(*                                                                          *)
(* A coroutine is identified by its address (the tag stored in user_data).  *)
(* The body of a coroutine is written as a step function: Enter runs it     *)
(* from the top to the first await, Continue runs it from the await it is   *)
(* suspended in to the next await, to its return, or to a throw.            *)
(***************************************************************************)
EXTENDS Integers, Sequences, FiniteSets, TLC

(***************************************************************************)
(* Program constants.                                                       *)
(***************************************************************************)
BUF_SIZE == 1024

nullptr == -1

\* buffers.data(): buffers are named by their distance from it
pool_start_ptr == 0

\* sizes of the fixed response headers and of the 200 header without digits
Len404 == 45
Len400 == 47
Len200 == 63

(***************************************************************************)
(* Bounds of the model.  The source registers 12 buffers and creates a     *)
(* ring of 32 submission entries (64 completion entries); the model is     *)
(* checked with a smaller pool and completion ring, so that an exhausted   *)
(* pool and a full completion ring are reached with two coroutines alive   *)
(* at once.  MaxFibers is the number of coroutine addresses; env.clients of *)
(* them are in use, as many as there are clients connecting at once.        *)
(***************************************************************************)
NumBuffers == 1

CqEntries == 1

MaxFibers == 3

\* entries of the submission ring (32 in the source)
SqEntries == 1

Slots == 0 .. (NumBuffers - 1)

Fibers == 1 .. MaxFibers

FdRange == 1 .. (2 * MaxFibers)

Min(S) == CHOOSE x \in S : \A y \in S : x <= y

MinOf(a, b) == IF a <= b THEN a ELSE b

(***************************************************************************)
(* The environment: the file system and what clients send.                  *)
(***************************************************************************)
GET == <<"G", "E", "T">>

\* regular files (name, size), and one directory
RegularFiles ==
    { [name |-> <<"/", "e">>, size |-> 0],
      [name |-> <<"/", "a">>, size |-> 2],
      [name |-> <<"/", "k">>, size |-> BUF_SIZE],
      [name |-> <<"/", "m">>, size |-> BUF_SIZE + 1] }

Directories == { <<"/">> }

IsRegular(name) == \E f \in RegularFiles : f.name = name

SizeOf(name) == (CHOOSE f \in RegularFiles : f.name = name).size

CanOpen(name) == IsRegular(name) \/ name \in Directories

\* what a client may send in its first segment
Requests ==
    { GET \o <<" ", "/", "e", " ">>,
      GET \o <<" ", "/", "a", " ">>,
      GET \o <<" ", "/", "k", " ">>,
      GET \o <<" ", "/", "m", " ">>,
      GET \o <<" ", "/", "n", " ">>,
      GET \o <<" ", "/", " ">>,
      GET \o <<"X", "/", "a", " ">>,
      GET \o <<" ", "/", "a">>,
      GET,
      <<"G", "E">>,
      <<"P", "U", "T", " ", "/", "a", " ">> }

NonGetRequests == { <<"P", "U", "T", " ", "/", "a", " ">> }

CoreRequests ==
    { GET \o <<" ", "/", "a", " ">>,
      GET \o <<" ", "/", "n", " ">>,
      <<"P", "U", "T", " ", "/", "a", " ">> }


(***************************************************************************)
(* Records.                                                                 *)
(***************************************************************************)
\* an entry of the descriptor table
Closed == [kind |-> "closed", name |-> <<>>]

Socket == [kind |-> "socket", name |-> <<>>]

File(name) == [kind |-> "file", name |-> name]

\* a free coroutine address
NoFiber == [pc |-> "none"]

\* no submission
NoOp == [opcode |-> "none"]

\* struct fiber_data, and the locals of serve / http_send_file that live
\* across a suspension
NewFiber(pool, fd) ==
    [pc |-> "created", pool_ptr |-> pool, clientfd |-> fd,
     infd |-> nullptr, st_size |-> 0, offset |-> 0]

\* lowest descriptor not in use, as open(2) and accept(2) return it
NewFd(fdt) == Min({n \in FdRange : fdt[n].kind = "closed"})

close(fdt, fd) == IF fd \in FdRange THEN [fdt EXCEPT ![fd] = Closed] ELSE fdt

RECURSIVE Digits(_)
\* number of characters fmt::format("{}", n) produces for n >= 0
Digits(n) == IF n < 10 THEN 1 ELSE 1 + Digits(n \div 10)

(***************************************************************************)
(* The await_* primitives up to their yield: the submission they make.      *)
(***************************************************************************)
\* await_readv / await_writev: one iovec (base, len), no registered buffer
await_plain(a, operation, fd, base, len, off) ==
    [user_data |-> a, opcode |-> operation, fd |-> fd, base |-> base,
     len |-> len, offset |-> off, buf_index |-> nullptr]

\* await_read_fixed / await_write_fixed: the coroutine's pool buffer;
\* nbyte = 0 stands for the whole buffer, buf_index = pool - pool_start_ptr
await_fixed(a, f, operation, fd, nbyte, off) ==
    [user_data |-> a, opcode |-> operation, fd |-> fd, base |-> "pool",
     len |-> IF nbyte = 0 THEN BUF_SIZE ELSE nbyte, offset |-> off,
     buf_index |-> (f.pool_ptr - pool_start_ptr) % 65536]

\* a check that lets a result of 0 through
PanicsOnNegativeOnly(res) == res < 0

\* the check every await_* makes on the value it is resumed with
Panics(res) == res <= 0

IsRead(op) == op.opcode \in {"readv", "read_fixed"}

IsWrite(op) == op.opcode \in {"writev", "write_fixed"}

IsFixed(op) == op.opcode \in {"read_fixed", "write_fixed"}

(***************************************************************************)
(* Outcomes of one run of the coroutine body.                               *)
(***************************************************************************)
Suspend(f, pc, op, fdt) ==
    [f |-> [f EXCEPT !.pc = pc], op |-> op, st |-> "suspended", fdt |-> fdt]

Return(f, fdt) ==
    [f |-> [f EXCEPT !.pc = "returned"], op |-> NoOp, st |-> "finished", fdt |-> fdt]

Throw(f, fdt) ==
    [f |-> [f EXCEPT !.pc = "thrown"], op |-> NoOp, st |-> "thrown", fdt |-> fdt]

\* reads that use the fixed variant whether there is a pool buffer or not
ReadIntoFixed(a, f, fd, len, off) == await_fixed(a, f, "read_fixed", fd, len, off)

\* the pooled / unpooled branches of http_send_file
ReadInto(a, f, fd, len, off) ==
    IF f.pool_ptr # nullptr
    THEN await_fixed(a, f, "read_fixed", fd, len, off)
    ELSE await_plain(a, "readv", fd, "filebuf", len, off)

\* an unpooled branch that writes its whole array whatever the length
WriteFromWholeArray(a, f, fd, len) ==
    IF f.pool_ptr # nullptr
    THEN await_fixed(a, f, "write_fixed", fd, len, 0)
    ELSE await_plain(a, "writev", fd, "filebuf", BUF_SIZE, 0)

WriteFrom(a, f, fd, len) ==
    IF f.pool_ptr # nullptr
    THEN await_fixed(a, f, "write_fixed", fd, len, 0)
    ELSE await_plain(a, "writev", fd, "filebuf", len, 0)

(***************************************************************************)
(* serve: the request prefix check and the path.  The view is the first    *)
(* res bytes of the buffer; rx are the bytes the kernel put there.  Bytes   *)
(* of the view beyond rx are whatever the buffer held before, so what       *)
(* depends on them is any of the possible outcomes.                         *)
(***************************************************************************)
Bad == [k |-> "bad", name |-> <<>>]

OutOfRange == [k |-> "throw", name |-> <<>>]

Path(name) == [k |-> "file", name |-> name]

\* 1-based positions >= 5 of a space: find(' ', 4)
Spaces(data) == {i \in 5 .. Len(data) : data[i] = " "}

\* substr(4, find(' ', 4) - 4) of a view that is wholly known
PathOf(data) ==
    IF Spaces(data) = {} THEN SubSeq(data, 5, Len(data))
    ELSE SubSeq(data, 5, Min(Spaces(data)) - 1)

\* buf_view.compare(0, 3, "GET") == 0 on a view that is wholly known
IsGet(data) == Len(data) >= 3 /\ SubSeq(data, 1, 3) = GET

ParseKnown(data) ==
    IF IsGet(data)
    THEN IF Len(data) < 4 THEN OutOfRange ELSE Path(PathOf(data))
    ELSE Bad

\* a path completed by stale bytes: one of those the clients of the run
\* name, or some other
AnyPath(requests) ==
    {ParseKnown(r) : r \in {q \in requests : IsGet(q) /\ Len(q) >= 4}}
      \cup {Path(<<"?">>)}

ParseOutcomes(rx, res, requests) ==
    LET n    == MinOf(res, Len(rx))
        data == SubSeq(rx, 1, n)
    IN  IF res <= Len(rx) THEN {ParseKnown(data)}
        ELSE LET mayGet == res >= 3 /\ SubSeq(data, 1, MinOf(n, 3)) = SubSeq(GET, 1, MinOf(n, 3))
                 mayBad == n < 3 \/ SubSeq(data, 1, 3) # GET
                 gets   == IF res < 4 THEN {OutOfRange}
                           ELSE IF Spaces(data) # {} THEN {Path(PathOf(data))}
                           ELSE AnyPath(requests)
             IN  (IF mayGet THEN gets ELSE {}) \cup (IF mayBad THEN {Bad} ELSE {})

(***************************************************************************)
(* http_send_file.                                                          *)
(***************************************************************************)
\* an http_send_file for which a target that is missing or not a regular
\* file is an error like any other
SendFileOrThrow(a, f, name, fdt) ==
    LET infd == IF CanOpen(name) THEN NewFd(fdt) ELSE nullptr
        fdt1 == IF CanOpen(name) THEN [fdt EXCEPT ![infd] = File(name)] ELSE fdt
        f1   == [f EXCEPT !.infd = infd]
    IN  IF infd < 0 \/ ~IsRegular(name)
        THEN Throw(f1, fdt1)
        ELSE Suspend([f1 EXCEPT !.st_size = SizeOf(name), !.offset = 0], "whdr",
                     await_plain(a, "writev", f.clientfd, "hdr200",
                                 Len200 + Digits(SizeOf(name)), 0),
                     fdt1)

\* open, fstat and the 404 / 200 header write
SendFile(a, f, name, fdt) ==
    LET infd == IF CanOpen(name) THEN NewFd(fdt) ELSE nullptr
        fdt1 == IF CanOpen(name) THEN [fdt EXCEPT ![infd] = File(name)] ELSE fdt
        f1   == [f EXCEPT !.infd = infd]
    IN  IF infd < 0 \/ ~IsRegular(name)
        THEN Suspend(f1, "w404",
                     await_plain(a, "writev", f.clientfd, "http_404_hdr", Len404, 0),
                     fdt1)
        ELSE Suspend([f1 EXCEPT !.st_size = SizeOf(name), !.offset = 0], "whdr",
                     await_plain(a, "writev", f.clientfd, "hdr200",
                                 Len200 + Digits(SizeOf(name)), 0),
                     fdt1)

\* a remainder that is read and written even when nothing remains
SendLoopZeroTail(a, f, fdt) ==
    IF f.st_size - f.offset > BUF_SIZE
    THEN Suspend(f, "rd_loop", ReadInto(a, f, f.infd, BUF_SIZE, f.offset), fdt)
    ELSE Suspend(f, "rd_last",
                 ReadInto(a, f, f.infd, f.st_size - f.offset, f.offset), fdt)

\* the chunk loop and the remainder, entered with the current offset
SendLoop(a, f, fdt) ==
    IF f.st_size - f.offset > BUF_SIZE
    THEN Suspend(f, "rd_loop", ReadInto(a, f, f.infd, BUF_SIZE, f.offset), fdt)
    ELSE IF f.st_size > f.offset
    THEN Suspend(f, "rd_last",
                 ReadInto(a, f, f.infd, f.st_size - f.offset, f.offset), fdt)
    ELSE Return(f, close(fdt, f.infd))

(***************************************************************************)
(* The coroutine body.  Enter: serve from its top to the first await.       *)
(* Continue: from the await the coroutine is suspended in, resumed with     *)
(* res, to the next await, the return of serve, or a throw.  parsed is the  *)
(* outcome of the prefix check (used at "serve_read" only).                 *)
(***************************************************************************)
Enter(a, f, fdt) ==
    Suspend(f, "serve_read",
            IF f.pool_ptr # nullptr
            THEN await_fixed(a, f, "read_fixed", f.clientfd, 0, 0)
            ELSE await_plain(a, "readv", f.clientfd, "buffer", BUF_SIZE, 0),
            fdt)

Continue(a, f, res, parsed, fdt) ==
    IF Panics(res) THEN Throw(f, fdt)
    ELSE CASE f.pc = "serve_read" ->
                IF parsed.k = "bad"
                THEN Suspend(f, "w400",
                             await_plain(a, "writev", f.clientfd, "http_400_hdr",
                                         Len400, 0), fdt)
                ELSE IF parsed.k = "throw" THEN Throw(f, fdt)
                ELSE SendFile(a, f, parsed.name, fdt)
           [] f.pc = "w400" -> Return(f, fdt)
           [] f.pc = "w404" -> Return(f, close(fdt, f.infd))
           [] f.pc = "whdr" -> SendLoop(a, f, fdt)
           [] f.pc = "rd_loop" ->
                Suspend(f, "wr_loop", WriteFrom(a, f, f.clientfd, BUF_SIZE), fdt)
           [] f.pc = "wr_loop" ->
                SendLoop(a, [f EXCEPT !.offset = f.offset + BUF_SIZE], fdt)
           [] f.pc = "rd_last" ->
                Suspend(f, "wr_last",
                        WriteFrom(a, f, f.clientfd, f.st_size - f.offset), fdt)
           [] f.pc = "wr_last" -> Return(f, close(fdt, f.infd))

(***************************************************************************)
(* State.                                                                   *)
(*                                                                          *)
(* The completion ring is kept as the queue cq of the entries that are      *)
(* posted and not yet marked seen.  main's cqe points into the ring's       *)
(* memory: cur.res is what that entry holds.  Once the entry is marked      *)
(* seen its slot is free again, and it is the last free slot the kernel     *)
(* fills: the completion that makes the ring full while main is between     *)
(* io_uring_cqe_seen and its read of cqe->res lands on it.                  *)
(***************************************************************************)
VARIABLES
    available_buffers,  \* std::set of the free pool buffers (slot indices)
    fibers,             \* address -> the coroutine allocated there, or NoFiber
    fdtable,            \* the process's descriptors
    sq,                 \* submission entries obtained and not yet submitted
    inflight,           \* submissions the kernel has taken and not completed
    cq,                 \* completion entries posted and not yet seen
    bufs,               \* address -> contents of the buffer its operations target
    wire,               \* address -> what the peer of its socket has received
    mainpc,             \* main: "loop", or "seen" between cqe_seen and cqe->res
    cur,                \* main's locals at "seen": fiber, and the entry cqe points to
    aborted,            \* an exception left main
    hist,               \* history: slots ever released, addresses ever deleted,
                        \* whether accept ran past a waiting completion since
                        \* the last peek
    env                 \* the clients of this run

vars ==
    <<available_buffers, fibers, fdtable, sq, inflight, cq, bufs, wire, mainpc,
      cur, aborted, hist, env>>

\* res: what the entry holds now; res0: what it held when it was peeked
NoCur == [fiber |-> 0, res |-> 0, res0 |-> 0]

EmptyBuf == [rx |-> <<>>, valid |-> 0]

Live == {a \in Fibers : fibers[a].pc # "none"}

\* the addresses operator new can return for the next coroutine
FreeAddrs == {a \in Fibers : a <= env.clients /\ fibers[a].pc = "none"}

Started ==
    /\ available_buffers = Slots
    /\ fibers = [a \in Fibers |-> NoFiber]
    /\ fdtable = [n \in FdRange |-> Closed]
    /\ sq = <<>>
    /\ inflight = {}
    /\ cq = <<>>
    /\ bufs = [a \in Fibers |-> EmptyBuf]
    /\ wire = [a \in Fibers |-> <<>>]
    /\ mainpc = "loop"
    /\ cur = NoCur
    /\ aborted = FALSE
    /\ hist = [released |-> {}, freed |-> {}, overtaken |-> FALSE]

\* all but one of the addresses in use, each client sending one of a few
\* requests; transfers complete in full or fail
Init ==
    /\ Started
    /\ env = [requests |-> CoreRequests, clients |-> MaxFibers - 1, fail |-> TRUE, short |-> FALSE]

(***************************************************************************)
(* The kernel.                                                              *)
(***************************************************************************)
\* results a transfer of len bytes may complete with: an error, nothing,
\* all of them and, in runs with short transfers, fewer than asked
Results(len) == {-1, 0, len} \cup (IF len > 1 /\ env.short THEN {1} ELSE {})

\* what res bytes written from the source of op put on the wire
Payload(op, f, valid, res) ==
    CASE op.base = "http_400_hdr" -> <<[what |-> "400", off |-> 0, len |-> res]>>
      [] op.base = "http_404_hdr" -> <<[what |-> "404", off |-> 0, len |-> res]>>
      [] op.base = "hdr200" -> <<[what |-> "200", off |-> f.st_size, len |-> res]>>
      [] OTHER ->
           LET good == MinOf(res, valid) IN
           (IF good > 0 THEN <<[what |-> "file", off |-> f.offset, len |-> good]>>
            ELSE <<>>)
           \o
           (IF res > good
            THEN <<[what |-> IF IsFixed(op) THEN "stale pool" ELSE "stale stack",
                    off |-> 0, len |-> res - good]>>
            ELSE <<>>)

\* the kernel posts a completion entry; the one that fills the ring while
\* main holds a seen entry overwrites that entry
Post(a, res) ==
    /\ cq' = Append(cq, [user_data |-> a, res |-> res])
    /\ cur' = IF mainpc = "seen" /\ Len(cq) + 1 = CqEntries
              THEN [cur EXCEPT !.res = res] ELSE cur

\* the kernel completes a submission and posts its completion entry
KernelComplete(op) ==
    LET a == op.user_data IN
    /\ ~aborted
    /\ op \in inflight
    /\ Len(cq) < CqEntries
    /\ inflight' = inflight \ {op}
    /\ \/ \E res \in {-1, 0} :
             /\ env.fail
             /\ Post(a, res)
             /\ UNCHANGED <<bufs, wire>>
       \/ /\ IsRead(op)
          /\ fdtable[op.fd].kind = "socket"
          /\ \E data \in env.requests :
                /\ Len(data) <= op.len
                /\ Post(a, Len(data))
                /\ bufs' = [bufs EXCEPT ![a].rx = data]
          /\ UNCHANGED wire
       \/ /\ IsRead(op)
          /\ fdtable[op.fd].kind = "file"
          /\ \E res \in Results(op.len) :
                /\ res > 0
                /\ Post(a, res)
                /\ bufs' = [bufs EXCEPT ![a].valid = res]
          /\ UNCHANGED wire
       \/ /\ IsWrite(op)
          /\ \E res \in Results(op.len) :
                /\ res > 0
                /\ Post(a, res)
                /\ wire' = [wire EXCEPT
                              ![a] = @ \o Payload(op, fibers[a], bufs[a].valid, res)]
          /\ UNCHANGED bufs
    /\ UNCHANGED <<available_buffers, fibers, fdtable, sq, mainpc, aborted, hist,
                   env>>

(***************************************************************************)
(* main: the pool, cleanFiber and the event loop.                           *)
(***************************************************************************)
\* an accept branch that takes the first buffer of the pool, free or not
AcquireFirstOfPool(avail) == Min(Slots)

\* the buffer the accept branch takes: *available_buffers.begin(), if any
Acquire(avail) == IF avail # {} THEN Min(avail) ELSE nullptr

\* a cleanFiber that does not put the buffer back
ReleaseNothing(avail, f) == avail

\* cleanFiber's insert of the coroutine's buffer
Release(avail, f) == IF f.pool_ptr # nullptr THEN avail \cup {f.pool_ptr} ELSE avail

\* tests that clean whatever next() returned, when it returned true, never
ShouldCleanAlways(alive) == TRUE

ShouldCleanIfAlive(alive) == alive

ShouldCleanNever(alive) == FALSE

\* the test main makes on what next() returned
ShouldClean(alive) == ~alive

\* a loop that does not mark the entry seen
NotSeen(q) == q

\* io_uring_cqe_seen: the head entry leaves the queue
Seen(q) == Tail(q)

\* Fiber::next returns whether the body is still to finish
Alive(r) == r.st = "suspended"

Suspended(f) ==
    f.pc \in {"serve_read", "w400", "w404", "whdr", "rd_loop", "wr_loop",
              "rd_last", "wr_last"}

\* an await_* that yields without an entry
SubmittedNothing(r) == {}

\* the entry the await_* of run r obtained and filled in, if it got to one
Submitted(r) == IF r.st = "suspended" THEN {r.op} ELSE {}

\* an io_uring_submit that hands nothing to the kernel
SubmitNothing(q) == q

\* io_uring_submit: what is left in the submission ring; the kernel takes
\* every entry queued
io_uring_submit(q) == <<>>

\* io_uring_get_sqe followed by io_uring_submit in the await_* of run r:
\* full when there is no free entry (get_sqe returns a null pointer, which
\* the await_* writes through), else the entries left and those taken
SubmitRun(q, r) ==
    LET ops    == Submitted(r)
        queued == IF ops = {} THEN q ELSE Append(q, r.op)
        rest   == io_uring_submit(queued)
    IN  [full  |-> ops # {} /\ Len(q) >= SqEntries,
         rest  |-> rest,
         taken |-> {queued[i] : i \in DOMAIN queued} \ {rest[i] : i \in DOMAIN rest}]

\* what main does with the outcome r of fiber->next(...) on coroutine a:
\* an exception leaves main; otherwise cleanFiber when next() returned false
AfterNext(a, r, avail) ==
    LET cleaned == r.st # "thrown" /\ ShouldClean(Alive(r))
        \* this is the accept branch, run with a completion waiting in the ring
        over    == hist.overtaken \/ (mainpc = "loop" /\ cq # <<>>)
    IN
    /\ sq' = SubmitRun(sq, r).rest
    /\ inflight' = inflight \cup SubmitRun(sq, r).taken
    /\ aborted' = (r.st = "thrown" \/ SubmitRun(sq, r).full)
    /\ IF cleaned
       THEN /\ fdtable' = close(r.fdt, r.f.clientfd)
            /\ available_buffers' = Release(avail, r.f)
            /\ fibers' = [fibers EXCEPT ![a] = NoFiber]
            /\ bufs' = [bufs EXCEPT ![a] = EmptyBuf]
            /\ wire' = [wire EXCEPT ![a] = <<>>]
            /\ hist' = [released |-> hist.released \cup (Release(avail, r.f) \ avail),
                        freed |-> hist.freed \cup {a}, overtaken |-> over]
       ELSE /\ fdtable' = r.fdt
            /\ available_buffers' = avail
            /\ fibers' = [fibers EXCEPT ![a] = r.f]
            /\ bufs' = [bufs EXCEPT ![a].rx = <<>>]
            /\ hist' = [hist EXCEPT !.overtaken = over]
            /\ UNCHANGED wire

\* a loop iteration that accepts a connection and peeks as well
AcceptAndPeek ==
    /\ ~aborted
    /\ mainpc = "loop"
    /\ \E a \in FreeAddrs :
          LET newfd == NewFd(fdtable)
              pool  == Acquire(available_buffers)
              f     == NewFiber(pool, newfd)
              avail == available_buffers \ {pool}
              r     == Enter(a, f, [fdtable EXCEPT ![newfd] = Socket])
          IN  AfterNext(a, r, avail)
    /\ IF cq # <<>>
       THEN /\ cur' = [fiber |-> Head(cq).user_data, res |-> Head(cq).res,
                       res0 |-> Head(cq).res]
            /\ cq' = Tail(cq)
            /\ mainpc' = "seen"
       ELSE UNCHANGED <<cq, mainpc, cur>>
    /\ UNCHANGED env

\* accept returned a connection: new coroutine, buffer if any, first run
Accept ==
    /\ ~aborted
    /\ mainpc = "loop"
    /\ \E a \in FreeAddrs :
          LET newfd == NewFd(fdtable)
              pool  == Acquire(available_buffers)
              f     == NewFiber(pool, newfd)
              avail == available_buffers \ {pool}
              r     == Enter(a, f, [fdtable EXCEPT ![newfd] = Socket])
          IN  AfterNext(a, r, avail)
    /\ UNCHANGED <<cq, mainpc, cur, env>>

\* accept returned no connection and the ring holds no entry
PollIdle ==
    /\ ~aborted
    /\ mainpc = "loop"
    /\ cq = <<>>
    /\ UNCHANGED vars

\* accept returned no connection: peek; take the entry's tag and mark it seen
PollPeek ==
    /\ ~aborted
    /\ mainpc = "loop"
    /\ cq # <<>>
    /\ cur' = [fiber |-> Head(cq).user_data, res |-> Head(cq).res,
               res0 |-> Head(cq).res]
    /\ cq' = Seen(cq)
    /\ mainpc' = "seen"
    /\ hist' = [hist EXCEPT !.overtaken = FALSE]
    /\ UNCHANGED <<available_buffers, fibers, fdtable, sq, inflight, bufs, wire,
                   aborted, env>>

\* fiber->next(cqe->res), read from the entry after it was marked seen,
\* and cleanFiber when the body is done
PollResume ==
    LET a   == cur.fiber
        res == cur.res
    IN
    /\ ~aborted
    /\ mainpc = "seen"
    /\ mainpc' = "loop"
    /\ cur' = NoCur
    /\ IF Suspended(fibers[a])
       THEN \E parsed \in (IF fibers[a].pc = "serve_read"
                           THEN ParseOutcomes(bufs[a].rx, res, env.requests) ELSE {Bad}) :
               AfterNext(a, Continue(a, fibers[a], res, parsed, fdtable),
                         available_buffers)
       ELSE \* the tag names no suspended coroutine: next() on freed memory
            /\ aborted' = TRUE
            /\ UNCHANGED <<available_buffers, fibers, fdtable, sq, inflight,
                           bufs, wire, hist>>
    /\ UNCHANGED <<cq, env>>

Next ==
    \/ Accept
    \/ PollIdle
    \/ PollPeek
    \/ PollResume
    \/ \E op \in inflight : KernelComplete(op)

Spec == Init /\ [][Next]_vars

(***************************************************************************)
(* Properties.                                                              *)
(***************************************************************************)
Held == {fibers[a].pool_ptr : a \in Live} \ {nullptr}

\* operations of coroutine a the kernel has taken and a has not been resumed for
Outstanding(a) ==
    Cardinality({op \in inflight : op.user_data = a})
      + Cardinality({i \in DOMAIN cq : cq[i].user_data = a})
      + (IF mainpc = "seen" /\ cur.fiber = a THEN 1 ELSE 0)

\* C1: no buffer slot is leased to two live connections at once, also when
\* a slot that cleanup returned is handed out again.
NoDoubleLease ==
    \A a \in Live : \A b \in Live :
        a # b /\ fibers[a].pool_ptr # nullptr
            => fibers[a].pool_ptr # fibers[b].pool_ptr

\* a slot that was released is leased again, beside another live connection
SlotReusedBesideAnother ==
    \E a \in Live : \E b \in Live :
        a # b /\ fibers[a].pool_ptr \in hist.released

\* C2: the free set and the slots held by live connections are disjoint and
\* together are all the slots created at startup.
PoolPartition ==
    /\ available_buffers \cap Held = {}
    /\ available_buffers \cup Held = Slots

\* the pool is exhausted again after a slot went through cleanup, and a
\* connection runs without a slot
ExhaustedAfterRelease ==
    /\ available_buffers = {}
    /\ hist.released # {}
    /\ \E a \in Live : fibers[a].pool_ptr = nullptr

\* C3: no slot is in the free set while a fixed-buffer operation that targets
\* it is in the kernel; such an operation targets the slot its coroutine holds.
NoReleaseWhileTargeted ==
    \A op \in inflight :
        IsFixed(op) =>
            /\ op.buf_index \notin available_buffers
            /\ op.user_data \in Live
            /\ fibers[op.user_data].pool_ptr = op.buf_index

\* cleanFiber has put a slot back, and a later connection has a fixed-buffer
\* operation in the kernel
ReleasedThenTargeted ==
    /\ hist.released # {}
    /\ \E op \in inflight : IsFixed(op) /\ op.buf_index \in hist.released

\* C4: each coroutine has at most one operation outstanding (submitted, its
\* completion not yet delivered to the coroutine).
OneOutstanding == \A a \in Fibers : Outstanding(a) <= 1

\* two coroutines have an operation outstanding, one of them not its first
TwoOutstandingLater ==
    \E a \in Live : \E b \in Live :
        /\ a # b
        /\ Outstanding(a) = 1
        /\ Outstanding(b) = 1
        /\ fibers[a].pc \notin {"serve_read", "thrown"}

\* C5: the value a coroutine is resumed with is the result of the completion
\* that was reaped for it.
ResumedWithReapedResult == mainpc = "seen" => cur.res = cur.res0

\* C6: every tag of an operation in the kernel or of a completion entry, and
\* the coroutine main is about to resume, is a live coroutine suspended in an
\* await, and an operation in the kernel is the one its coroutine awaits.
ResumeOnlySuspended ==
    /\ mainpc = "seen" => Suspended(fibers[cur.fiber])
    /\ \A i \in DOMAIN cq : Suspended(fibers[cq[i].user_data])
    /\ \A op \in inflight :
          /\ Suspended(fibers[op.user_data])
          /\ op.fd \in {fibers[op.user_data].clientfd, fibers[op.user_data].infd}
          /\ IsRead(op) <=> fibers[op.user_data].pc \in {"serve_read", "rd_loop", "rd_last"}

\* main is about to resume a coroutine whose address an earlier, destroyed
\* coroutine had
ResumeAtReusedAddress == mainpc = "seen" /\ cur.fiber \in hist.freed

\* the body of coroutine a returns when it is resumed now
ReturnsNow(a) ==
    /\ mainpc = "seen"
    /\ cur.fiber = a
    /\ Suspended(fibers[a])
    /\ \E parsed \in (IF fibers[a].pc = "serve_read"
                      THEN ParseOutcomes(bufs[a].rx, cur.res, env.requests) ELSE {Bad}) :
          Continue(a, fibers[a], cur.res, parsed, fdtable).st = "finished"

SocketsOpen == {n \in FdRange : fdtable[n].kind = "socket"}

\* the sockets that are open are those of the live coroutines, one each, and
\* no coroutine whose body has returned is left
CleanedWhenDone ==
    /\ \A a \in Fibers : fibers[a].pc # "returned"
    /\ SocketsOpen = {fibers[a].clientfd : a \in Live}
    /\ \A a \in Live : \A b \in Live : a # b => fibers[a].clientfd # fibers[b].clientfd

\* a coroutine is destroyed only in the step in which its body returns, and
\* that step closes its socket and puts its slot, if any, into the free set
CleanupStep ==
    \A a \in Fibers :
        (fibers[a].pc # "none" /\ fibers'[a].pc = "none") =>
            /\ ReturnsNow(a)
            /\ fdtable'[fibers[a].clientfd].kind = "closed"
            /\ fibers[a].pool_ptr # nullptr => fibers[a].pool_ptr \in available_buffers'

\* C7: cleanup runs once per connection, in the loop iteration in which its
\* coroutine reports not-alive and never while it is alive: it closes the
\* socket, returns the slot and destroys the coroutine.
CleanupExactlyWhenDone == [] CleanedWhenDone /\ [][CleanupStep]_vars

\* a connection with a slot has been cleaned up and nothing of it is left
EverythingReclaimed ==
    /\ hist.released # {}
    /\ Live = {}
    /\ SocketsOpen = {}
    /\ available_buffers = Slots

\* C8: a coroutine resumed with a result <= 0 aborts the process, and an
\* aborted process takes no further step.
AbortOnNonPositive ==
    /\ [][(mainpc = "seen" /\ mainpc' = "loop" /\ cur.res <= 0) => aborted']_vars
    /\ [][~aborted]_vars

\* the process is aborted by one coroutine while another connection is
\* suspended with its operation outstanding
AbortedLeavingAnother ==
    /\ aborted
    /\ \E a \in Live : \E b \in Live :
          /\ fibers[a].pc = "thrown"
          /\ Suspended(fibers[b])
          /\ Outstanding(b) = 1

(***************************************************************************)
(* Progress.  The loop runs for ever and polls whenever accept returns no   *)
(* connection; the kernel completes every operation it has taken, except    *)
(* that the operations of the coroutine at address Stalled may stay in the  *)
(* kernel for ever.                                                         *)
(***************************************************************************)
Stalled == Min(Fibers)

CompleteFor(a) == \E op \in inflight : op.user_data = a /\ KernelComplete(op)

\* every address in use: one connection may stall while another fails and
\* a third is served; every client sends a request that is not a GET
InitLive ==
    /\ Started
    /\ env = [requests |-> NonGetRequests, clients |-> MaxFibers, fail |-> TRUE, short |-> FALSE]

LiveSpec ==
    /\ InitLive
    /\ [][Next]_vars
    /\ WF_vars(PollPeek)
    /\ WF_vars(PollResume)
    /\ \A a \in Fibers \ {Stalled} : SF_vars(CompleteFor(a))

\* the completion posted for coroutine b, or reaped for it, is <= 0
NonPositive(b) ==
    \/ \E i \in DOMAIN cq : cq[i].user_data = b /\ cq[i].res <= 0
    \/ mainpc = "seen" /\ cur.fiber = b /\ cur.res0 <= 0

\* a coroutine whose operation stays in the kernel stays as it is
StalledStays ==
    \A op \in inflight : op \in inflight' => fibers'[op.user_data] = fibers[op.user_data]

\* while an operation of the coroutine at Stalled is in the kernel, main at
\* the top of its loop can still accept and start a connection
AcceptsBesideStalled ==
    (/\ ~aborted
     /\ mainpc = "loop"
     /\ FreeAddrs # {}
     /\ \E op \in inflight : op.user_data = Stalled) => ENABLED Accept

\* an operation of the coroutine at Stalled is in the kernel
StalledWaits == \E op \in inflight : op.user_data = Stalled

FileRequests == { GET \o <<" ", "/", "a", " ">> }

InitShort ==
    /\ Started
    /\ env = [requests |-> FileRequests, clients |-> MaxFibers - 1, fail |-> FALSE, short |-> TRUE]

SpecShort == InitShort /\ [][Next]_vars

\* the last write of the body of coroutine a has been done by the kernel
Responded(a) ==
    /\ \/ fibers[a].pc \in {"w400", "w404", "wr_last"}
       \/ fibers[a].pc = "whdr" /\ fibers[a].st_size = 0
    /\ \A op \in inflight : op.user_data # a

\* what is on the wire, leaving aside where bytes that no read put into the
\* buffer come from
Shape(w) == [i \in DOMAIN w |->
               IF w[i].what \in {"stale pool", "stale stack"}
               THEN [w[i] EXCEPT !.what = "stale"] ELSE w[i]]

\* C10: a connection accepted with the pool exhausted, whose operations
\* complete with the same positive results as those of a connection holding
\* a slot, has sent the same response as that connection.
SameResponseWithoutSlot ==
    \A a, b \in Live :
        (/\ fibers[a].pool_ptr # nullptr
         /\ fibers[b].pool_ptr = nullptr
         /\ Responded(a)
         /\ Responded(b)
         /\ Shape(wire[a]) = Shape(wire[b])) => wire[a] = wire[b]

RECURSIVE FileChunks(_, _)
\* the bytes of a file of n bytes from offset off on, in pieces of at most
\* BUF_SIZE
FileChunks(off, n) ==
    IF off >= n THEN <<>>
    ELSE <<[what |-> "file", off |-> off, len |-> MinOf(BUF_SIZE, n - off)]>>
           \o FileChunks(off + BUF_SIZE, n)

\* the 200 header with Content-Length n, whole, and then the n bytes
ExpectedResponse(n) ==
    <<[what |-> "200", off |-> n, len |-> Len200 + Digits(n)]>> \o FileChunks(0, n)

\* C11: when the handler has sent its last write for a request naming a
\* regular file of N bytes, and no operation completed with a result <= 0,
\* the peer has received the 200 header with Content-Length N followed by
\* exactly the N bytes of the file, with or without a pool buffer.
ExactFileSent ==
    \A a \in Live :
        (Responded(a) /\ fibers[a].pc \in {"whdr", "wr_last"}) =>
            /\ fibers[a].st_size = SizeOf(fdtable[fibers[a].infd].name)
            /\ wire[a] = ExpectedResponse(fibers[a].st_size)

(***************************************************************************)
(* The request handler.  Two clients, one with the pool buffer and one      *)
(* without, send any of the requests; every operation completes in full.    *)
(***************************************************************************)
InitHandler ==
    /\ Started
    /\ env = [requests |-> Requests, clients |-> MaxFibers - 1, fail |-> FALSE, short |-> FALSE]

SpecHandler == InitHandler /\ [][Next]_vars

\* the view begins with the four characters G, E, T, space
HasGetPrefix(data) == Len(data) >= 4 /\ SubSeq(data, 1, 4) = GET \o <<" ">>

\* main resumes coroutine a, suspended in the read of its request, with the
\* number of bytes the read put into its buffer
ResumesWithRequest(a) ==
    /\ mainpc = "seen"
    /\ mainpc' = "loop"
    /\ cur.fiber = a
    /\ fibers[a].pc = "serve_read"
    /\ cur.res = Len(bufs[a].rx)

\* C12: a coroutine resumed with a request that does not begin with "GET "
\* submits the write of the fixed 400 response and nothing else, opens no
\* file, and goes on normally.
BadPrefixGets400 ==
    [][\A a \in Fibers :
          (ResumesWithRequest(a) /\ ~HasGetPrefix(bufs[a].rx)) =>
              /\ ~aborted'
              /\ fibers'[a].pc = "w400"
              /\ fdtable' = fdtable
              /\ inflight' \ inflight =
                    {await_plain(a, "writev", fibers[a].clientfd, "http_400_hdr",
                                 Len400, 0)}]_vars

\* ceil(n / BUF_SIZE)
Cycles(n) == (n + BUF_SIZE - 1) \div BUF_SIZE

RECURSIVE SumLen(_)
SumLen(w) == IF w = <<>> THEN 0 ELSE Head(w).len + SumLen(Tail(w))

\* the reads of the file and the writes of what was read that coroutine a
\* has in the kernel
ChunkOps(a) == {op \in inflight : op.user_data = a /\ op.base \in {"pool", "filebuf"}}

\* C13: serving a file of N bytes, every read and every write of a cycle is
\* at an offset that is a multiple of BUF_SIZE and below N, and of length
\* min(BUF_SIZE, N - offset), so between 1 and BUF_SIZE; when the last write
\* is done there have been ceil(N / BUF_SIZE) cycles, at offsets 0,
\* BUF_SIZE, ..., of lengths summing to N (none when N = 0).
ReadThenWriteCycles ==
    \A a \in Live :
        LET f == fibers[a]
            n == f.st_size
            w == wire[a]
        IN  f.pc \in {"whdr", "rd_loop", "wr_loop", "rd_last", "wr_last"} =>
              /\ \A op \in ChunkOps(a) :
                    /\ f.offset % BUF_SIZE = 0
                    /\ f.offset < n
                    /\ op.len = MinOf(BUF_SIZE, n - f.offset)
                    /\ op.len \in 1 .. BUF_SIZE
                    /\ IsRead(op) <=> f.pc \in {"rd_loop", "rd_last"}
                    /\ IsRead(op) => op.fd = f.infd /\ op.offset = f.offset
                    /\ IsWrite(op) => op.fd = f.clientfd
              /\ Responded(a) =>
                    /\ Len(w) = 1 + Cycles(n)
                    /\ \A i \in 2 .. Len(w) :
                          /\ w[i].what = "file"
                          /\ w[i].off = (i - 2) * BUF_SIZE
                          /\ w[i].len \in 1 .. BUF_SIZE
                    /\ SumLen(Tail(w)) = n

\* a file whose size is BUF_SIZE exactly has been sent by a coroutine
\* without a pool buffer, in one cycle
ExactMultipleServed ==
    \E a \in Live :
        /\ fibers[a].pool_ptr = nullptr
        /\ fibers[a].st_size = BUF_SIZE
        /\ fibers[a].pc = "wr_last"
        /\ Responded(a)
        /\ Len(wire[a]) = 2

\* main resumes coroutine a, suspended at pc, with a positive result
ResumesAt(a, pc) ==
    /\ mainpc = "seen"
    /\ mainpc' = "loop"
    /\ cur.fiber = a
    /\ fibers[a].pc = pc
    /\ ~Panics(cur.res)

\* C14: a coroutine resumed with a GET request whose target cannot be
\* opened or is not a regular file submits the write of the fixed 404
\* response and nothing else; resumed after that write it returns and is
\* cleaned up, with its socket and whatever it opened closed; the process
\* does not abort in either step.
MissingTargetGets404 ==
    [][\A a \in Fibers :
          /\ (/\ ResumesWithRequest(a)
               /\ HasGetPrefix(bufs[a].rx)
               /\ ~IsRegular(PathOf(bufs[a].rx))) =>
                  /\ ~aborted'
                  /\ fibers'[a].pc = "w404"
                  /\ inflight' \ inflight =
                        {await_plain(a, "writev", fibers[a].clientfd,
                                     "http_404_hdr", Len404, 0)}
          /\ ResumesAt(a, "w404") =>
                  /\ ~aborted'
                  /\ fibers'[a].pc = "none"
                  /\ inflight' = inflight
                  /\ fdtable'[fibers[a].clientfd] = Closed
                  /\ fibers[a].infd \in FdRange => fdtable'[fibers[a].infd] = Closed]_vars

\* the 404 response has been sent for a target that could be opened and is
\* not a regular file
DirectoryGot404 ==
    \E a \in Live :
        /\ fibers[a].pc = "w404"
        /\ fibers[a].infd # nullptr
        /\ fdtable[fibers[a].infd].name \in Directories
        /\ wire[a] = <<[what |-> "404", off |-> 0, len |-> Len404]>>

\* C15: the value main passes to next() is the result the completion entry
\* held when it was peeked, whatever the kernel has put into the ring since
\* the entry was marked seen.
PassesPeekedResult ==
    [][(mainpc = "seen" /\ mainpc' = "loop" /\ Suspended(fibers[cur.fiber])) =>
          cur.res = cur.res0]_vars

\* the coroutines a step changes
Changed == {a \in Fibers : fibers'[a] # fibers[a]}

\* C16: a step that starts a new coroutine leaves the completion ring, main's
\* position and every other coroutine as they are; a step that takes an
\* entry from the ring takes one and runs no coroutine; between the peek and
\* the top of the loop only the coroutine of the entry taken runs; no step
\* runs two coroutines.
OneBranchPerIteration ==
    [][/\ (\E a \in Fibers : fibers[a].pc = "none" /\ fibers'[a].pc # "none") =>
             /\ cq' = cq
             /\ mainpc = "loop" /\ mainpc' = "loop"
             /\ cur' = cur
             /\ Cardinality(Changed) = 1
       /\ Len(cq') < Len(cq) =>
             /\ cq' = Tail(cq)
             /\ mainpc = "loop" /\ mainpc' = "seen"
             /\ Changed = {}
       /\ mainpc = "seen" => Changed \subseteq {cur.fiber}
       /\ Cardinality(Changed) <= 1]_vars

\* the accept branch has run while a completion was waiting in the ring,
\* and the completion is waiting still, its coroutine where it was
AcceptedPastCompletion ==
    /\ hist.overtaken
    /\ mainpc = "loop"
    /\ cq # <<>>
    /\ Suspended(fibers[Head(cq).user_data])

\* the same coroutine with a pool buffer if it has none, without if it has
Twin(f) == [f EXCEPT !.pool_ptr = IF @ = nullptr THEN Min(Slots) ELSE nullptr]

\* an operation up to its fixed / plain variant
OpShape(op) ==
    IF op.opcode = "none" THEN <<"none", 0, 0, 0>>
    ELSE <<IF IsRead(op) THEN "read" ELSE "write", op.fd, op.offset, op.len>>

\* two runs of the body end the same way, with the same operation up to its
\* variant, the same locals and the same descriptors open
SameRun(r1, r2) ==
    /\ r1.st = r2.st
    /\ r1.fdt = r2.fdt
    /\ OpShape(r1.op) = OpShape(r2.op)
    /\ [r1.f EXCEPT !.pool_ptr = nullptr] = [r2.f EXCEPT !.pool_ptr = nullptr]

\* C17: started on the same socket, or resumed at the same point with the
\* same result and the same request, the body run with a pool buffer and the
\* body run without one submit the same kind of operation on the same
\* descriptor at the same offset with the same length, or both return, or
\* both throw.
SameOperationsEitherWay ==
    /\ \A a \in Fibers : \A fd \in FdRange :
          SameRun(Enter(a, NewFiber(nullptr, fd), fdtable),
                  Enter(a, NewFiber(Min(Slots), fd), fdtable))
    /\ (mainpc = "seen" /\ Suspended(fibers[cur.fiber])) =>
          LET a == cur.fiber
              f == fibers[a]
          IN  \A parsed \in (IF f.pc = "serve_read"
                              THEN ParseOutcomes(bufs[a].rx, cur.res, env.requests)
                              ELSE {Bad}) :
                 SameRun(Continue(a, f, cur.res, parsed, fdtable),
                         Continue(a, Twin(f), cur.res, parsed, fdtable))

\* a coroutine with the pool buffer and one without are both in the first
\* write of the same file of more than BUF_SIZE bytes
BothWaysInSameChunk ==
    \E a, b \in Live :
        /\ fibers[a].pool_ptr # nullptr
        /\ fibers[b].pool_ptr = nullptr
        /\ fibers[a].pc = "wr_loop" /\ fibers[b].pc = "wr_loop"
        /\ fibers[a].st_size = fibers[b].st_size
        /\ \E op \in inflight : op.user_data = a /\ op.opcode = "write_fixed"
        /\ \E op \in inflight : op.user_data = b /\ op.opcode = "writev"

\* operations of coroutine a in the kernel, or completed and in the ring
Pending(a) ==
    Cardinality({op \in inflight : op.user_data = a})
      + Cardinality({i \in DOMAIN cq : cq[i].user_data = a})

LeaseFixedAtAccept ==
    /\ [][\A a \in Fibers :
             (fibers[a].pc # "none" /\ fibers'[a].pc # "none") =>
                 fibers'[a].pool_ptr = fibers[a].pool_ptr]_vars
    /\ [](\A op \in inflight :
             LET f == fibers[op.user_data] IN
             /\ IsFixed(op) =>
                   /\ f.pool_ptr # nullptr
                   /\ op.buf_index \in Slots
                   /\ op.buf_index = f.pool_ptr - pool_start_ptr
             /\ f.pool_ptr = nullptr => ~IsFixed(op) /\ op.buf_index = nullptr)

\* a coroutine accepted without a buffer is past its first operation,
\* still without one, while a buffer that was released is free
NoLeaseWhileSlotFree ==
    \E b \in Live :
        /\ fibers[b].pool_ptr = nullptr
        /\ fibers[b].pc \in {"rd_last", "wr_last"}
        /\ \E op \in inflight : op.user_data = b
        /\ available_buffers # {}
        /\ hist.released # {}

====
